---- MODULE Spec2Model ----
(***************************************************************************)
(* Model of the two PDF overlay endpoints pages/api/processPdf.js and      *)
(* pages/api/addText.js.                                                   *)
(*                                                                         *)
(* JavaScript numbers are fixed-point integers counted in hundredths       *)
(* (0.15 is 15, 1 is 100, 48 is 4800), so that the fractional defaults and *)
(* fractional page numbers of the code are exact.  Page counts, array      *)
(* indexes and string lengths are plain integers.                          *)
(* JavaScript values are tagged records; a string is its sequence of       *)
(* characters.                                                             *)
(***************************************************************************)
EXTENDS Integers, Sequences, FiniteSets, TLC

(* ---------------- bounds of the model ---------------- *)
MaxPages == 3

(* ---------------- JavaScript values ---------------- *)
Undef == [t |-> "undefined"]
Null == [t |-> "null"]
Num(n) == [t |-> "number", n |-> n]
Str(s) == [t |-> "string", s |-> s]
Bool(b) == [t |-> "boolean", v |-> b]
Arr(a) == [t |-> "array", a |-> a]
Fx(i) == 100 * i

Max(a, b) == IF a >= b THEN a ELSE b
Min(a, b) == IF a <= b THEN a ELSE b

Digits == <<"0", "1", "2", "3", "4", "5", "6", "7", "8", "9">>
IsDigit(c) == \E i \in 1..10 : Digits[i] = c
DigitVal(c) == (CHOOSE i \in 1..10 : Digits[i] = c) - 1

RECURSIVE TrimStart(_)
TrimStart(s) == IF s # <<>> /\ Head(s) = " " THEN TrimStart(Tail(s)) ELSE s
RECURSIVE TrimEnd(_)
TrimEnd(s) == IF s # <<>> /\ s[Len(s)] = " " THEN TrimEnd(SubSeq(s, 1, Len(s) - 1)) ELSE s
Trim(s) == TrimEnd(TrimStart(s))

(* value of an unsigned digit string, as a plain integer *)
RECURSIVE DigitsVal(_)
DigitsVal(s) == IF s = <<>> THEN 0 ELSE 10 * DigitsVal(SubSeq(s, 1, Len(s) - 1)) + DigitVal(s[Len(s)])
AllDigits(s) == \A i \in 1..Len(s) : IsDigit(s[i])
DotAt(s) == IF \E i \in 1..Len(s) : s[i] = "." THEN CHOOSE i \in 1..Len(s) : s[i] = "." /\ \A j \in 1..(i - 1) : s[j] # "." ELSE 0
IntPart(s) == IF DotAt(s) = 0 THEN s ELSE SubSeq(s, 1, DotAt(s) - 1)
FracPart(s) == IF DotAt(s) = 0 THEN <<>> ELSE SubSeq(s, DotAt(s) + 1, Len(s))
(* an unsigned decimal literal with at most two fraction digits *)
IsUnsignedLiteral(s) == /\ AllDigits(IntPart(s))
                        /\ AllDigits(FracPart(s))
                        /\ Len(FracPart(s)) <= 2
                        /\ Len(IntPart(s)) + Len(FracPart(s)) > 0
UnsignedVal(s) == Fx(DigitsVal(IntPart(s))) + (IF Len(FracPart(s)) = 1 THEN 10 * DigitsVal(FracPart(s)) ELSE DigitsVal(FracPart(s)))
Unsign(s) == IF s # <<>> /\ Head(s) \in {"-", "+"} THEN Tail(s) ELSE s
(* Number(string): blank is 0, a decimal literal is its value, else NaN *)
StringIsNumeric(s) == Trim(s) = <<>> \/ IsUnsignedLiteral(Unsign(Trim(s)))
StringToNumber(s) == IF Trim(s) = <<>> THEN 0 ELSE IF Head(Trim(s)) = "-" THEN 0 - UnsignedVal(Unsign(Trim(s))) ELSE UnsignedVal(Unsign(Trim(s)))

(* Number.isFinite(Number(v)) *)
IsFiniteNumber(v) == CASE v.t = "number" -> TRUE
                       [] v.t = "null" -> TRUE
                       [] v.t = "boolean" -> TRUE
                       [] v.t = "string" -> StringIsNumeric(v.s)
                       [] v.t = "array" -> v.a = <<>>
                       [] OTHER -> FALSE
(* Number(v), where it is finite *)
NumberOf(v) == CASE v.t = "number" -> v.n
                 [] v.t = "boolean" -> (IF v.v THEN Fx(1) ELSE 0)
                 [] v.t = "string" -> StringToNumber(v.s)
                 [] OTHER -> 0
(* Number.isFinite(Number(v)) ? Number(v) : fallback *)
FiniteOr(v, fallback) == IF IsFiniteNumber(v) THEN NumberOf(v) ELSE fallback

(* JavaScript truthiness *)
Truthy(v) == CASE v.t = "undefined" -> FALSE
               [] v.t = "null" -> FALSE
               [] v.t = "number" -> v.n # 0
               [] v.t = "string" -> v.s # <<>>
               [] v.t = "boolean" -> v.v
               [] OTHER -> TRUE
TypeofObject(v) == v.t \in {"object", "array", "null"}
(* String(v) of a string *)
StringOf(v) == v.s

(* ---------------- processPdf.js helpers ---------------- *)
clamp01(v, fallback) == IF ~IsFiniteNumber(v) THEN fallback ELSE Max(0, Min(Fx(1), NumberOf(v)))

rgb(r, g, b) == [r |-> r, g |-> g, b |-> b]
Field(o, f) == IF o.t = "object" /\ f \in DOMAIN o THEN o[f] ELSE Undef

BlackColor == [t |-> "object", r |-> Num(0), g |-> Num(0), b |-> Num(0)]
GrayColor == [t |-> "object", r |-> Num(50), g |-> Num(50), b |-> Num(50)]

toColor(c, fallback) == LET src == IF Truthy(c) /\ TypeofObject(c) THEN c ELSE fallback
                        IN rgb(clamp01(Field(src, "r"), fallback.r.n), clamp01(Field(src, "g"), fallback.g.n), clamp01(Field(src, "b"), fallback.b.n))

(* ---------------- addText.js helpers ---------------- *)
addText_clamp01(v, fallback) == IF ~IsFiniteNumber(v) THEN fallback ELSE Max(0, Min(Fx(1), NumberOf(v)))

addText_toColor(c) == IF ~Truthy(c) \/ ~TypeofObject(c) THEN rgb(0, 0, 0) ELSE rgb(addText_clamp01(Field(c, "r"), 0), addText_clamp01(Field(c, "g"), 0), addText_clamp01(Field(c, "b"), 0))

(* ---------------- the document and its transport ---------------- *)
(* A pdfBase64 string is a sequence of tokens: the data-URI prefix, blanks, *)
(* the encoded PDF header, one token per encoded page, or junk.            *)
DataPrefix == "data:application/pdf;base64,"
PdfHeader == "%PDF"
PageToken == "P"

(* page.getSize() of page i (0-based) of a loaded document *)
getSize(i) == IF i % 2 = 0 THEN [width |-> Fx(600), height |-> Fx(800)] ELSE [width |-> Fx(800), height |-> Fx(600)]

(* String(b64).trim().replace(/^data:application\/pdf;base64,?/i, "") *)
CleanBase64(s) == IF Trim(s) # <<>> /\ Head(Trim(s)) = DataPrefix THEN Tail(Trim(s)) ELSE Trim(s)
(* Buffer.from(clean, "base64"): characters outside the alphabet are skipped *)
BufferFromBase64(s) == SelectSeq(s, LAMBDA c : c # " ")
decodePdfBase64(b64) == LET buf == BufferFromBase64(CleanBase64(StringOf(b64)))
                        IN [threw |-> buf = <<>>, buf |-> buf]
(* PDFDocument.load(bytes) then getPages().length; -1 when load throws *)
LoadPageCount(buf) == IF buf # <<>> /\ Head(buf) = PdfHeader /\ \A i \in 2..Len(buf) : buf[i] = PageToken THEN Len(buf) - 1 ELSE -1
(* fetchPdfBytesFromUrl: the server's answer is part of the request's environment *)
fetchPdfBytesFromUrl(net) == [threw |-> ~net.ok \/ net.bytes = <<>>, buf |-> net.bytes]

(* ---------------- render calls ---------------- *)
NoPage == -1
(* pages[safe]: a page only when safe is an integer index of the array *)
PageAt(n, safe) == IF \E i \in 0..(n - 1) : Fx(i) = safe THEN CHOOSE i \in 0..(n - 1) : Fx(i) = safe ELSE NoPage
Quiet == [calls |-> <<>>, threw |-> FALSE]
Thrown == [calls |-> <<>>, threw |-> TRUE]
DrawCall(kind, item, page, str, x, y, size, color, opacity, rotate) == [kind |-> kind, item |-> item, page |-> page, str |-> str, x |-> x, y |-> y, size |-> size, color |-> color, opacity |-> opacity, rotate |-> rotate]
(* rotate: rotateDeg ? degrees(rotateDeg) : undefined *)
RotateOpt(rotateDeg) == IF rotateDeg # 0 THEN Num(rotateDeg) ELSE Undef

(* ---------------- processPdf.js: text overlays ---------------- *)
drawTextCfg(page, cfg, item) == IF cfg.t # "object" \/ ~Truthy(cfg.text) THEN Quiet
                                ELSE IF page = NoPage THEN Thrown
                                ELSE [calls |-> << DrawCall("text", item, page, StringOf(cfg.text), FiniteOr(cfg.x, Fx(50)), FiniteOr(cfg.y, Fx(750)), FiniteOr(cfg.fontSize, Fx(12)), toColor(cfg.color, BlackColor), clamp01(cfg.opacity, Fx(1)), RotateOpt(FiniteOr(cfg.rotate, 0))) >>, threw |-> FALSE]

(* a variant whose loop stops one page early *)
RECURSIVE ForEachPageText_StopsEarly(_, _, _, _)
ForEachPageText_StopsEarly(i, n, cfg, item) == IF i >= n - 1 THEN <<>> ELSE drawTextCfg(i, cfg, item).calls \o ForEachPageText_StopsEarly(i + 1, n, cfg, item)

(* pages.forEach((p) => drawTextCfg(p, cfg)) from page i on *)
RECURSIVE ForEachPageText(_, _, _, _)
ForEachPageText(i, n, cfg, item) == IF i >= n THEN <<>> ELSE drawTextCfg(i, cfg, item).calls \o ForEachPageText(i + 1, n, cfg, item)

(* Math.max(0, Math.min(pageCount - 1, pn)) *)
SafePage(n, pn) == Max(0, Min(Fx(n - 1), pn))

(* one pass of the texts loop, or the legacy single text *)
DrawOnSelected(n, pn, cfg, item) == IF pn = Fx(-1) THEN [calls |-> ForEachPageText(0, n, cfg, item), threw |-> FALSE]
                                    ELSE drawTextCfg(PageAt(n, SafePage(n, pn)), cfg, item)
TextsLoopBody(n, t, item) == IF t.t \in {"null", "undefined"} THEN Thrown
                             ELSE DrawOnSelected(n, FiniteOr(Field(t, "pageNumber"), 0), t, item)

RECURSIVE TextsLoop(_, _, _)
TextsLoop(n, a, i) == IF i > Len(a) THEN Quiet
                      ELSE LET one == TextsLoopBody(n, a[i], i)
                           IN IF one.threw THEN one
                              ELSE LET rest == TextsLoop(n, a, i + 1)
                                   IN [calls |-> one.calls \o rest.calls, threw |-> rest.threw]

(* a variant that forgets to copy rotate *)
LegacyCfg_NoRotate(body) == [t |-> "object", text |-> body.text, x |-> body.x, y |-> body.y, pageNumber |-> Num(FiniteOr(body.pageNumber, 0)), fontSize |-> body.fontSize, color |-> body.color, opacity |-> body.opacity, rotate |-> Undef]
LegacyCfg(body) == [t |-> "object", text |-> body.text, x |-> body.x, y |-> body.y, pageNumber |-> Num(FiniteOr(body.pageNumber, 0)), fontSize |-> body.fontSize, color |-> body.color, opacity |-> body.opacity, rotate |-> body.rotate]

HasWatermark(body) == Truthy(body.watermark) /\ Truthy(Field(body.watermark, "text"))
LegacyTextGiven(body) == body.text.t = "string" /\ Trim(body.text.s) # <<>>

(* a variant without the final "otherwise complain" *)
TextOverlays_NeverRejects(n, body) == IF body.texts.t = "array" THEN [reject |-> FALSE] @@ TextsLoop(n, body.texts.a, 1)
                                      ELSE IF LegacyTextGiven(body) THEN [reject |-> FALSE] @@ DrawOnSelected(n, FiniteOr(body.pageNumber, 0), LegacyCfg(body), 1)
                                      ELSE [reject |-> FALSE] @@ Quiet
(* step 5 of the handler: [calls, threw, reject] *)
TextOverlays(n, body) == IF body.texts.t = "array" THEN [reject |-> FALSE] @@ TextsLoop(n, body.texts.a, 1)
                         ELSE IF LegacyTextGiven(body) THEN [reject |-> FALSE] @@ DrawOnSelected(n, FiniteOr(body.pageNumber, 0), LegacyCfg(body), 1)
                         ELSE [reject |-> ~HasWatermark(body)] @@ Quiet

(* ---------------- processPdf.js: watermark ---------------- *)
pad == Fx(24)
center == <<"c", "e", "n", "t", "e", "r">>
topLeft == <<"t", "o", "p", "-", "l", "e", "f", "t">>
topRight == <<"t", "o", "p", "-", "r", "i", "g", "h", "t">>
bottomLeft == <<"b", "o", "t", "t", "o", "m", "-", "l", "e", "f", "t">>
bottomRight == <<"b", "o", "t", "t", "o", "m", "-", "r", "i", "g", "h", "t">>

WmPos(wm) == IF Truthy(Field(wm, "position")) THEN Field(wm, "position") ELSE Str(center)
WmAnchorX(pos, width) == IF pos = Str(topLeft) THEN pad
                         ELSE IF pos = Str(topRight) THEN width - pad
                         ELSE IF pos = Str(bottomLeft) THEN pad
                         ELSE IF pos = Str(bottomRight) THEN width - pad
                         ELSE width
WmAnchorY(pos, height) == IF pos = Str(topLeft) THEN height - pad
                          ELSE IF pos = Str(topRight) THEN height - pad
                          ELSE IF pos = Str(bottomLeft) THEN pad
                          ELSE IF pos = Str(bottomRight) THEN pad
                          ELSE height \div 2
(* (textStr.length * wmSize) / 6 *)
WmShift(textStr, wmSize) == (Len(textStr) * wmSize) \div 6
WmFinalX(pos, x, shift) == IF pos = Str(center) THEN x - shift ELSE x

drawWm(page, wm) == LET size == getSize(page)
                        pos == WmPos(wm)
                        wmSize == FiniteOr(Field(wm, "fontSize"), Fx(48))
                        textStr == StringOf(Field(wm, "text"))
                    IN DrawCall("wm", 0, page, textStr, WmFinalX(pos, WmAnchorX(pos, size.width), WmShift(textStr, wmSize)), WmAnchorY(pos, size.height), wmSize, toColor(Field(wm, "color"), GrayColor), clamp01(Field(wm, "opacity"), 15), Num(FiniteOr(Field(wm, "rotate"), Fx(45))))

RECURSIVE ForEachPageWm(_, _, _)
ForEachPageWm(i, n, wm) == IF i >= n THEN <<>> ELSE <<drawWm(i, wm)>> \o ForEachPageWm(i + 1, n, wm)

(* a variant that reads the flag by truthiness: absent becomes "first page" *)
applyAll_Truthy(wm) == Truthy(Field(wm, "applyToAll"))
applyAll(wm) == Field(wm, "applyToAll") # Bool(FALSE)
(* step 4 of the handler *)
WatermarkCalls(n, body) == IF ~HasWatermark(body) THEN <<>>
                           ELSE IF applyAll(body.watermark) THEN ForEachPageWm(0, n, body.watermark)
                           ELSE <<drawWm(0, body.watermark)>>

(* ---------------- addText.js ---------------- *)
TypeofNumberOr(v, fallback) == IF v.t = "number" THEN v.n ELSE fallback

(* a variant with another default font size *)
drawOne_OtherDefaultSize(page, cfg, item) == IF cfg.t # "object" \/ ~Truthy(cfg.text) THEN Quiet
                                             ELSE IF page = NoPage THEN Thrown
                                             ELSE [calls |-> << DrawCall("text", item, page, StringOf(cfg.text), TypeofNumberOr(cfg.x, Fx(50)), TypeofNumberOr(cfg.y, Fx(750)), FiniteOr(cfg.fontSize, Fx(10)), addText_toColor(cfg.color), addText_clamp01(cfg.opacity, Fx(1)), RotateOpt(FiniteOr(cfg.rotate, 0))) >>, threw |-> FALSE]
drawOne(page, cfg, item) == IF cfg.t # "object" \/ ~Truthy(cfg.text) THEN Quiet
                            ELSE IF page = NoPage THEN Thrown
                            ELSE [calls |-> << DrawCall("text", item, page, StringOf(cfg.text), TypeofNumberOr(cfg.x, Fx(50)), TypeofNumberOr(cfg.y, Fx(750)), FiniteOr(cfg.fontSize, Fx(12)), addText_toColor(cfg.color), addText_clamp01(cfg.opacity, Fx(1)), RotateOpt(FiniteOr(cfg.rotate, 0))) >>, threw |-> FALSE]

RECURSIVE addText_ForEachPage(_, _, _, _)
addText_ForEachPage(i, n, cfg, item) == IF i >= n THEN <<>> ELSE drawOne(i, cfg, item).calls \o addText_ForEachPage(i + 1, n, cfg, item)

addText_DrawOnSelected(n, pn, cfg, item) == IF pn = Fx(-1) THEN [calls |-> addText_ForEachPage(0, n, cfg, item), threw |-> FALSE]
                                            ELSE drawOne(PageAt(n, SafePage(n, pn)), cfg, item)
addText_TextsLoopBody(n, t, item) == IF t.t \in {"null", "undefined"} THEN Thrown
                                     ELSE addText_DrawOnSelected(n, FiniteOr(Field(t, "pageNumber"), 0), t, item)

RECURSIVE addText_TextsLoop(_, _, _)
addText_TextsLoop(n, a, i) == IF i > Len(a) THEN Quiet
                              ELSE LET one == addText_TextsLoopBody(n, a[i], i)
                                   IN IF one.threw THEN one
                                      ELSE LET rest == addText_TextsLoop(n, a, i + 1)
                                           IN [calls |-> one.calls \o rest.calls, threw |-> rest.threw]

addText_TextOverlays(n, body) == IF body.texts.t = "array" /\ body.texts.a # <<>> THEN [reject |-> FALSE] @@ addText_TextsLoop(n, body.texts.a, 1)
                                 ELSE IF ~Truthy(body.text) THEN [reject |-> ~HasWatermark(body)] @@ Quiet
                                 ELSE [reject |-> FALSE] @@ addText_DrawOnSelected(n, FiniteOr(body.pageNumber, 0), LegacyCfg(body), 1)

addText_drawWm(page, wm) == LET size == getSize(page)
                                wmSize == FiniteOr(Field(wm, "fontSize"), Fx(48))
                                textStr == StringOf(Field(wm, "text"))
                                wmColor == addText_toColor(IF Truthy(Field(wm, "color")) THEN Field(wm, "color") ELSE GrayColor)
                            IN DrawCall("wm", 0, page, textStr, (size.width \div 2) - ((Len(textStr) * wmSize) \div 6), size.height \div 2, wmSize, wmColor, addText_clamp01(Field(wm, "opacity"), 15), Num(FiniteOr(Field(wm, "rotate"), Fx(45))))

RECURSIVE addText_ForEachPageWm(_, _, _)
addText_ForEachPageWm(i, n, wm) == IF i >= n THEN <<>> ELSE <<addText_drawWm(i, wm)>> \o addText_ForEachPageWm(i + 1, n, wm)

addText_WatermarkCalls(n, body) == IF ~HasWatermark(body) THEN <<>> ELSE addText_ForEachPageWm(0, n, body.watermark)

(* ---------------- the handlers, block by block ---------------- *)
(* const body = req.body || {} *)
EmptyBody == [t |-> "object", pdfBase64 |-> Undef, pdfUrl |-> Undef, text |-> Undef, x |-> Undef, y |-> Undef, pageNumber |-> Undef, fontSize |-> Undef, color |-> Undef, opacity |-> Undef, rotate |-> Undef, texts |-> Undef, watermark |-> Undef]
BodyOf(r) == IF Truthy(r.body) THEN r.body ELSE EmptyBody

(* steps 1 and 2 of processPdf: [status, n]; status 0 means "go on" *)
processPdf_InputBytes(body, net) == IF Truthy(body.pdfBase64) /\ body.pdfBase64.t = "string" THEN [given |-> TRUE] @@ decodePdfBase64(body.pdfBase64)
                                    ELSE IF Truthy(body.pdfUrl) /\ body.pdfUrl.t = "string" THEN [given |-> TRUE] @@ fetchPdfBytesFromUrl(net)
                                    ELSE [given |-> FALSE, threw |-> FALSE, buf |-> <<>>]
processPdf_Load(body, net) == LET in == processPdf_InputBytes(body, net)
                              IN IF ~in.given THEN [status |-> 400, n |-> 0]
                                 ELSE IF in.threw \/ LoadPageCount(in.buf) < 0 THEN [status |-> 500, n |-> 0]
                                 ELSE IF LoadPageCount(in.buf) = 0 THEN [status |-> 400, n |-> 0]
                                 ELSE [status |-> 0, n |-> LoadPageCount(in.buf)]

addText_Load(body) == IF ~Truthy(body.pdfBase64) \/ body.pdfBase64.t # "string" THEN [status |-> 400, n |-> 0]
                      ELSE LET buf == BufferFromBase64(CleanBase64(StringOf(body.pdfBase64)))
                           IN IF LoadPageCount(buf) < 0 THEN [status |-> 500, n |-> 0]
                              ELSE IF LoadPageCount(buf) = 0 THEN [status |-> 400, n |-> 0]
                              ELSE [status |-> 0, n |-> LoadPageCount(buf)]

(* the whole handler as a function of the request: [status, calls, pageCount] *)
Response(status, calls, pageCount) == [status |-> status, calls |-> calls, pageCount |-> pageCount]
AfterOverlays(n, wmCalls, ov) == IF ov.threw THEN Response(500, wmCalls \o ov.calls, 0)
                                 ELSE IF ov.reject THEN Response(400, wmCalls \o ov.calls, 0)
                                 ELSE Response(200, wmCalls \o ov.calls, n)
processPdf_handler(r) == IF r.method # "POST" THEN Response(405, <<>>, 0)
                         ELSE LET ld == processPdf_Load(BodyOf(r), r.net)
                              IN IF ld.status # 0 THEN Response(ld.status, <<>>, 0)
                                 ELSE AfterOverlays(ld.n, WatermarkCalls(ld.n, BodyOf(r)), TextOverlays(ld.n, BodyOf(r)))
addText_handler(r) == IF r.method # "POST" THEN Response(405, <<>>, 0)
                      ELSE LET ld == addText_Load(BodyOf(r))
                           IN IF ld.status # 0 THEN Response(ld.status, <<>>, 0)
                              ELSE AfterOverlays(ld.n, addText_WatermarkCalls(ld.n, BodyOf(r)), addText_TextOverlays(ld.n, BodyOf(r)))

(* ---------------- the requests the model sends ---------------- *)
EmptyItem == [t |-> "object", text |-> Undef, x |-> Undef, y |-> Undef, pageNumber |-> Undef, fontSize |-> Undef, color |-> Undef, opacity |-> Undef, rotate |-> Undef]
EmptyWm == [t |-> "object", text |-> Undef, applyToAll |-> Undef, position |-> Undef, fontSize |-> Undef, opacity |-> Undef, rotate |-> Undef, color |-> Undef]

PdfBytes(n) == <<PdfHeader>> \o [i \in 1..n |-> PageToken]
PdfOf(n) == Str(PdfBytes(n))
NoNet == [ok |-> FALSE, bytes |-> <<>>]
Endpoints == {"processPdf", "addText"}
Request(e, m, b, net) == [endpoint |-> e, method |-> m, body |-> b, net |-> net]
Post(e, b) == Request(e, "POST", b, NoNet)

TextA == Str(<<"A">>)
TextABC == Str(<<"A", "B", "C">>)
Blank == Str(<<" ">>)
Empty == Str(<<>>)

(* document payloads, good and bad *)
Base64Vals == {Undef, Null, Num(Fx(1)), Empty, Blank, Str(<<DataPrefix>>), Str(<<"?">>), Str(<<" ", DataPrefix>> \o PdfBytes(1) \o <<" ">>)} \cup {PdfOf(n) : n \in 0..MaxPages}
NetVals == {NoNet, [ok |-> TRUE, bytes |-> <<>>], [ok |-> TRUE, bytes |-> <<"?">>], [ok |-> TRUE, bytes |-> PdfBytes(0)], [ok |-> TRUE, bytes |-> PdfBytes(2)]}
WmA == [EmptyWm EXCEPT !.text = TextA]
OverlayVals == {EmptyBody, [EmptyBody EXCEPT !.text = TextA], [EmptyBody EXCEPT !.watermark = WmA], [EmptyBody EXCEPT !.texts = Arr(<<[EmptyItem EXCEPT !.text = TextA]>>)]}
PayloadRequests == {Post(e, [o EXCEPT !.pdfBase64 = p]) : e \in Endpoints, o \in OverlayVals, p \in Base64Vals}
                   \cup {Request(e, "POST", [o EXCEPT !.pdfUrl = Str(<<"u">>)], net) : e \in Endpoints, o \in OverlayVals, net \in NetVals}
                   \cup {Request(e, "POST", [o EXCEPT !.pdfUrl = Empty], NoNet) : e \in Endpoints, o \in OverlayVals}
                   \cup {Request(e, "POST", Undef, NoNet) : e \in Endpoints}
                   \cup {Request(e, m, [o EXCEPT !.pdfBase64 = PdfOf(1)], NoNet) : e \in Endpoints, m \in {"GET", "PUT"}, o \in OverlayVals}

(* watermarks of every shape, alone and over a text *)
Middle == Str(<<"m", "i", "d", "d", "l", "e">>)
PositionVals == {Undef, Empty, Str(center), Str(topLeft), Str(topRight), Str(bottomLeft), Str(bottomRight), Middle}
ApplyToAllVals == {Undef, Bool(TRUE), Bool(FALSE), Null, Num(0), Str(<<"f", "a", "l", "s", "e">>)}
WmTextVals == {Undef, Empty, TextA, TextABC}
WmSizeVals == {Undef, Num(Fx(12)), Str(<<"2", "4">>), Str(<<"b", "i", "g">>)}
WmVals == {[EmptyWm EXCEPT !.text = tx, !.applyToAll = a, !.position = p, !.fontSize = fs] : tx \in WmTextVals, a \in {Undef, Bool(FALSE)}, p \in PositionVals, fs \in WmSizeVals}
          \cup {[EmptyWm EXCEPT !.text = tx, !.applyToAll = a, !.position = p] : tx \in WmTextVals, a \in ApplyToAllVals, p \in {Undef, Str(topLeft)}}
WmOverVals == {EmptyBody, [EmptyBody EXCEPT !.texts = Arr(<<[EmptyItem EXCEPT !.text = TextA, !.pageNumber = Num(Fx(-1))]>>)], [EmptyBody EXCEPT !.text = TextABC, !.pageNumber = Num(Fx(1))]}
WatermarkRequests == {Post(e, [o EXCEPT !.pdfBase64 = PdfOf(n), !.watermark = w]) : e \in Endpoints, n \in 1..MaxPages, o \in WmOverVals, w \in WmVals}

(* text overlays: every page number on every document, and short arrays *)
MaxTexts == 2
PageNumberVals == {Undef, Null, Num(Fx(-1)), Num(0), Num(Fx(1)), Num(50), Num(150), Num(Fx(-5)), Num(Fx(MaxPages + 5)), Str(<<"1">>), Str(<<"-", "1">>), Str(<<"0", ".", "5">>), Str(<<"a">>)}
ItemVals == {[EmptyItem EXCEPT !.text = tx, !.pageNumber = pn] : tx \in {Undef, Empty, Blank, TextA}, pn \in PageNumberVals}
PoolVals == {[EmptyItem EXCEPT !.text = tx, !.pageNumber = pn] : tx \in {Empty, TextA}, pn \in {Undef, Num(Fx(-1)), Num(Fx(1)), Num(50)}} \cup {Null}
TextsVals == {Arr(<<i>>) : i \in ItemVals} \cup {Arr(a) : a \in UNION {[1..k -> PoolVals] : k \in 0..MaxTexts}}
TextRequests == {Post(e, [EmptyBody EXCEPT !.pdfBase64 = PdfOf(n), !.texts = a, !.watermark = w]) : e \in Endpoints, n \in 1..MaxPages, a \in TextsVals, w \in {Undef, WmA}}

(* the legacy single text and the same fields as a one-element texts array *)
LegacyTextVals == {Empty, Blank, TextA, Str(<<" ", "A">>)}
XVals == {Undef, Num(Fx(100)), Str(<<"7">>)}
YVals == {Undef, Num(Fx(20))}
SizeVals == {Undef, Str(<<"2", "4">>)}
OpacityVals == {Undef, Num(50), Num(Fx(2))}
RotateVals == {Undef, Num(Fx(90))}
StylePageVals == {Undef, Num(Fx(-1)), Num(50), Str(<<"1">>)}
StyleVals == {[EmptyItem EXCEPT !.text = tx, !.x = x, !.y = y, !.fontSize = fs, !.opacity = op, !.rotate = ro, !.pageNumber = pn] : tx \in LegacyTextVals, x \in XVals, y \in YVals, fs \in SizeVals, op \in OpacityVals, ro \in RotateVals, pn \in StylePageVals}
               \cup {[EmptyItem EXCEPT !.text = TextA, !.rotate = ro, !.opacity = op] : ro \in {Num(0), Null, Str(<<"4", "5">>)}, op \in {Null, Num(Fx(-1)), Str(<<"0", ".", "5">>)}}
LegacyBody(i) == [EmptyBody EXCEPT !.text = i.text, !.x = i.x, !.y = i.y, !.pageNumber = i.pageNumber, !.fontSize = i.fontSize, !.color = i.color, !.opacity = i.opacity, !.rotate = i.rotate]
LegacyRequests == {Post(e, [LegacyBody(i) EXCEPT !.pdfBase64 = PdfOf(MaxPages), !.watermark = w]) : e \in Endpoints, i \in StyleVals, w \in {Undef}}
                  \cup {Post(e, [EmptyBody EXCEPT !.pdfBase64 = PdfOf(MaxPages), !.texts = Arr(<<i>>)]) : e \in Endpoints, i \in StyleVals}

(* colours of texts and of watermarks *)
ChannelVals == {Undef, Null, Num(Fx(-1)), Num(30), Num(Fx(2)), Str(<<"x">>)}
ColorVals == {Undef, Null, Num(Fx(1)), Str(<<"r", "e", "d">>)} \cup {[t |-> "object", r |-> r, g |-> g, b |-> b] : r \in ChannelVals, g \in ChannelVals, b \in ChannelVals}
ColorRequests == {Post(e, [EmptyBody EXCEPT !.pdfBase64 = PdfOf(1), !.texts = Arr(<<[EmptyItem EXCEPT !.text = TextA, !.color = c]>>)]) : e \in Endpoints, c \in ColorVals}
                 \cup {Post(e, [EmptyBody EXCEPT !.pdfBase64 = PdfOf(1), !.text = TextA, !.color = c]) : e \in Endpoints, c \in ColorVals}
                 \cup {Post(e, [EmptyBody EXCEPT !.pdfBase64 = PdfOf(1), !.watermark = [WmA EXCEPT !.color = c]]) : e \in Endpoints, c \in ColorVals}

Requests == PayloadRequests \cup WatermarkRequests \cup TextRequests \cup LegacyRequests \cup ColorRequests

(* ---------------- the state machine ---------------- *)
VARIABLES req, pc, pageCount, calls, status, outPageCount
vars == <<req, pc, pageCount, calls, status, outPageCount>>

NoRequest == Request("none", "NONE", Undef, NoNet)

Init == /\ req = NoRequest
        /\ pc = "idle"
        /\ pageCount = 0
        /\ calls = <<>>
        /\ status = 0
        /\ outPageCount = 0

(* a request arrives at one of the two endpoints *)
Receive == /\ pc = "idle"
           /\ \E r \in Requests : req' = r
           /\ pc' = "method"
           /\ UNCHANGED <<pageCount, calls, status, outPageCount>>

Finish(code) == /\ status' = code
                /\ pc' = "done"

processPdf_RejectMethod == /\ pc = "method" /\ req.endpoint = "processPdf" /\ req.method # "POST"
                           /\ Finish(405)
                           /\ UNCHANGED <<req, pageCount, calls, outPageCount>>

processPdf_LoadStep == /\ pc = "method" /\ req.endpoint = "processPdf" /\ req.method = "POST"
                       /\ LET ld == processPdf_Load(BodyOf(req), req.net)
                          IN IF ld.status # 0 THEN Finish(ld.status) /\ UNCHANGED pageCount
                             ELSE pageCount' = ld.n /\ pc' = "watermark" /\ UNCHANGED status
                       /\ UNCHANGED <<req, calls, outPageCount>>

processPdf_WatermarkStep == /\ pc = "watermark" /\ req.endpoint = "processPdf"
                            /\ calls' = calls \o WatermarkCalls(pageCount, BodyOf(req))
                            /\ pc' = "texts"
                            /\ UNCHANGED <<req, pageCount, status, outPageCount>>

(* a variant that draws the text overlays under the watermark *)
processPdf_TextsStep_DrawsFirst == /\ pc = "texts" /\ req.endpoint = "processPdf"
                                   /\ LET ov == TextOverlays(pageCount, BodyOf(req))
                                      IN /\ calls' = ov.calls \o calls
                                         /\ IF ov.threw THEN Finish(500)
                                            ELSE IF ov.reject THEN Finish(400)
                                            ELSE pc' = "save" /\ UNCHANGED status
                                   /\ UNCHANGED <<req, pageCount, outPageCount>>

processPdf_TextsStep == /\ pc = "texts" /\ req.endpoint = "processPdf"
                        /\ LET ov == TextOverlays(pageCount, BodyOf(req))
                           IN /\ calls' = calls \o ov.calls
                              /\ IF ov.threw THEN Finish(500)
                                 ELSE IF ov.reject THEN Finish(400)
                                 ELSE pc' = "save" /\ UNCHANGED status
                        /\ UNCHANGED <<req, pageCount, outPageCount>>

processPdf_SaveStep == /\ pc = "save" /\ req.endpoint = "processPdf"
                       /\ Finish(200)
                       /\ outPageCount' = pageCount
                       /\ UNCHANGED <<req, pageCount, calls>>

addText_RejectMethod == /\ pc = "method" /\ req.endpoint = "addText" /\ req.method # "POST"
                        /\ Finish(405)
                        /\ UNCHANGED <<req, pageCount, calls, outPageCount>>

addText_LoadStep == /\ pc = "method" /\ req.endpoint = "addText" /\ req.method = "POST"
                    /\ LET ld == addText_Load(BodyOf(req))
                       IN IF ld.status # 0 THEN Finish(ld.status) /\ UNCHANGED pageCount
                          ELSE pageCount' = ld.n /\ pc' = "watermark" /\ UNCHANGED status
                    /\ UNCHANGED <<req, calls, outPageCount>>

addText_WatermarkStep == /\ pc = "watermark" /\ req.endpoint = "addText"
                         /\ calls' = calls \o addText_WatermarkCalls(pageCount, BodyOf(req))
                         /\ pc' = "texts"
                         /\ UNCHANGED <<req, pageCount, status, outPageCount>>

addText_TextsStep == /\ pc = "texts" /\ req.endpoint = "addText"
                     /\ LET ov == addText_TextOverlays(pageCount, BodyOf(req))
                        IN /\ calls' = calls \o ov.calls
                           /\ IF ov.threw THEN Finish(500)
                              ELSE IF ov.reject THEN Finish(400)
                              ELSE pc' = "save" /\ UNCHANGED status
                     /\ UNCHANGED <<req, pageCount, outPageCount>>

addText_SaveStep == /\ pc = "save" /\ req.endpoint = "addText"
                    /\ Finish(200)
                    /\ outPageCount' = pageCount
                    /\ UNCHANGED <<req, pageCount, calls>>

(* the response is sent; nothing of the request survives it *)
Reply == /\ pc = "done"
         /\ req' = NoRequest
         /\ pc' = "idle"
         /\ pageCount' = 0
         /\ calls' = <<>>
         /\ status' = 0
         /\ outPageCount' = 0

Next == \/ Receive
        \/ processPdf_RejectMethod
        \/ processPdf_LoadStep
        \/ processPdf_WatermarkStep
        \/ processPdf_TextsStep
        \/ processPdf_SaveStep
        \/ addText_RejectMethod
        \/ addText_LoadStep
        \/ addText_WatermarkStep
        \/ addText_TextsStep
        \/ addText_SaveStep
        \/ Reply

Spec == Init /\ [][Next]_vars

(* the step-by-step run and the handler as a function agree *)
HandlerOf(r) == IF r.endpoint = "processPdf" THEN processPdf_handler(r) ELSE addText_handler(r)
Done == pc = "done"
StepsMatchHandler == Done => Response(status, calls, outPageCount) = HandlerOf(req)

(* ---------------- what the claims talk about ---------------- *)
Body == BodyOf(req)
InProcessPdf == req.endpoint = "processPdf"
InAddText == req.endpoint = "addText"
(* the watermark block has run *)
WatermarkDone == pc \in {"texts", "save", "done"}
(* the text-overlay block has run *)
OverlaysDone == pc \in {"save", "done"}
OfKind(k) == SelectSeq(calls, LAMBDA c : c.kind = k)
WmCalls == OfKind("wm")
TextCalls == OfKind("text")
PagesOf(cs) == [i \in 1..Len(cs) |-> cs[i].page]
AllPagesInOrder(n) == [i \in 1..n |-> i - 1]
Corners == {Str(topLeft), Str(topRight), Str(bottomLeft), Str(bottomRight)}

(* C1: in processPdf, a watermark whose position is "center" or absent is   *)
(* drawn on every target page of width W and height H at                    *)
(* x = W/2 - (length(text) * fontSize)/6 and y = H/2.                       *)
C1_CenterAnchor == (InProcessPdf /\ WatermarkDone /\ HasWatermark(Body) /\ Field(Body.watermark, "position") \in {Undef, Str(center)})
                   => \A i \in 1..Len(WmCalls) :
                        /\ WmCalls[i].x = (getSize(WmCalls[i].page).width \div 2) - ((Len(WmCalls[i].str) * WmCalls[i].size) \div 6)
                        /\ WmCalls[i].y = getSize(WmCalls[i].page).height \div 2

(* C7: in processPdf, a watermark whose position is none of the four corner *)
(* names is drawn at the same (x, y) as the same watermark with position    *)
(* "center".                                                                *)
Centered(body) == [body EXCEPT !.watermark = [body.watermark EXCEPT !.position = Str(center)]]
XYOf(cs) == [i \in 1..Len(cs) |-> <<cs[i].page, cs[i].x, cs[i].y>>]
C7_OtherPositionsAreCenter == (InProcessPdf /\ WatermarkDone /\ HasWatermark(Body) /\ Field(Body.watermark, "position") \notin Corners)
                              => XYOf(WmCalls) = XYOf(WatermarkCalls(pageCount, Centered(Body)))

(* C4 as claimed: applyToAll absent or true draws the watermark once on     *)
(* each of the N pages in page order; any other value, false included,      *)
(* draws it once, on page 0.                                                *)
C4_AnyOtherValueFirstPageOnly == (InProcessPdf /\ WatermarkDone /\ HasWatermark(Body))
                                 => IF Field(Body.watermark, "applyToAll") \in {Undef, Bool(TRUE)}
                                    THEN PagesOf(WmCalls) = AllPagesInOrder(pageCount)
                                    ELSE PagesOf(WmCalls) = <<0>>
(* C4 as amended: the boolean false alone draws the watermark once, on page *)
(* 0; every other applyToAll value (absent, true, null, 0, a string) draws  *)
(* it once on each of the N pages in page order.                            *)
C4_OnlyFalseFirstPageOnly == (InProcessPdf /\ WatermarkDone /\ HasWatermark(Body))
                             => IF Field(Body.watermark, "applyToAll") = Bool(FALSE)
                                THEN PagesOf(WmCalls) = <<0>>
                                ELSE PagesOf(WmCalls) = AllPagesInOrder(pageCount)
C4_Witness == /\ InProcessPdf /\ Done /\ status = 200 /\ HasWatermark(Body)
              /\ Field(Body.watermark, "applyToAll") = Null
              /\ pageCount = MaxPages
              /\ Len(WmCalls) = MaxPages

(* C2: in both handlers, every watermark draw of a request comes before    *)
(* every text-overlay draw: no text draw is ever followed by a watermark    *)
(* draw.                                                                    *)
C2_WatermarkBeforeTexts == \A i \in 1..Len(calls) : \A j \in 1..Len(calls) :
                              (calls[i].kind = "text" /\ calls[j].kind = "wm") => j < i
C2_Witness == /\ InAddText /\ Done /\ status = 200
              /\ Len(WmCalls) = MaxPages
              /\ Len(TextCalls) = MaxPages

(* C3: in processPdf, a text overlay with non-empty text and any pageNumber *)
(* is drawn on all N pages when the coerced value is -1, and otherwise on   *)
(* exactly one page: k itself when k is in [0, N-1], 0 below the range,     *)
(* N-1 above it; the request never ends in an error for it.                 *)
ItemsAreObjects == Body.texts.t = "array" /\ \A i \in 1..Len(Body.texts.a) : Body.texts.a[i].t = "object"
PagesOfItem(i) == PagesOf(SelectSeq(TextCalls, LAMBDA c : c.item = i))
C3_PageOf(i) == LET pn == FiniteOr(Body.texts.a[i].pageNumber, 0)
                IN IF pn = Fx(-1) THEN PagesOfItem(i) = AllPagesInOrder(pageCount)
                   ELSE /\ Len(PagesOfItem(i)) = 1
                        /\ PagesOfItem(i)[1] \in 0..(pageCount - 1)
                        /\ pn < 0 => PagesOfItem(i)[1] = 0
                        /\ pn > Fx(pageCount - 1) => PagesOfItem(i)[1] = pageCount - 1
                        /\ (pn >= 0 /\ pn <= Fx(pageCount - 1)) => Fx(PagesOfItem(i)[1]) = pn
C3_EveryPageNumberLands == (InProcessPdf /\ Done /\ pageCount >= 1 /\ ItemsAreObjects)
                           => /\ status = 200
                              /\ \A i \in 1..Len(Body.texts.a) : Truthy(Body.texts.a[i].text) => C3_PageOf(i)

(* C5 as claimed: in processPdf, a request on a valid document with no      *)
(* watermark text, no texts element with non-empty text and no non-empty    *)
(* legacy text is answered 400; no 200 follows zero render calls.           *)
NoTextsElementWithText == Body.texts.t = "array" => \A i \in 1..Len(Body.texts.a) : ~Truthy(Field(Body.texts.a[i], "text"))
NoInstruction == ~HasWatermark(Body) /\ NoTextsElementWithText /\ (Body.texts.t # "array" => ~Truthy(Body.text))
TextsWellFormed == Body.texts.t = "array" => \A i \in 1..Len(Body.texts.a) : Body.texts.a[i].t = "object"
C5_NoInstructionIs400 == (InProcessPdf /\ Done /\ pageCount >= 1 /\ TextsWellFormed)
                         => /\ NoInstruction => status = 400
                            /\ status = 200 => calls # <<>>
(* C5 as amended: a request on a valid document with no texts array, no     *)
(* watermark text and no legacy text string that is non-blank after         *)
(* trimming is answered 400 without a render call; a 200 after zero render  *)
(* calls is given only to a request that carries a texts array.             *)
NonBlankString(v) == v.t = "string" /\ \E i \in 1..Len(v.s) : v.s[i] # " "
C5_NoTextsArrayNoInstructionIs400 == (InProcessPdf /\ Done /\ pageCount >= 1)
                                     => /\ (~HasWatermark(Body) /\ Body.texts.t # "array" /\ ~NonBlankString(Body.text)) => (status = 400 /\ calls = <<>>)
                                        /\ (status = 200 /\ calls = <<>>) => Body.texts.t = "array"
C5_Witness == /\ InProcessPdf /\ Done /\ pageCount >= 1
              /\ status = 400 /\ calls = <<>>
              /\ Body.text = Blank

(* C6 as claimed: in processPdf, for every non-empty top-level text T and   *)
(* all other fields, the legacy request {text:T, ...} answers with the same *)
(* status and the same render calls as {texts:[{text:T, ...}]}.             *)
AsTextsItem(body) == [EmptyItem EXCEPT !.text = body.text, !.x = body.x, !.y = body.y, !.pageNumber = body.pageNumber, !.fontSize = body.fontSize, !.color = body.color, !.opacity = body.opacity, !.rotate = body.rotate]
AsTextsBody(body) == [EmptyBody EXCEPT !.pdfBase64 = body.pdfBase64, !.pdfUrl = body.pdfUrl, !.watermark = body.watermark, !.texts = Arr(<<AsTextsItem(body)>>)]
AsTextsRequest == [req EXCEPT !.body = AsTextsBody(Body)]
SameAsTextsForm == Response(status, calls, outPageCount) = processPdf_handler(AsTextsRequest)
C6_LegacyIsOneElementTexts == (InProcessPdf /\ Done /\ req.method = "POST" /\ Body.texts = Undef /\ Body.text.t = "string" /\ Body.text.s # <<>>)
                              => SameAsTextsForm
(* C6 as amended: the same, for every top-level text string T that is       *)
(* non-blank after trimming.                                                *)
C6_NonBlankLegacyIsOneElementTexts == (InProcessPdf /\ Done /\ req.method = "POST" /\ Body.texts = Undef /\ NonBlankString(Body.text))
                                      => SameAsTextsForm
C6_Witness == /\ InProcessPdf /\ Done /\ status = 200
              /\ Body.texts = Undef /\ Body.text = Str(<<" ", "A">>)
              /\ Body.rotate = Num(Fx(90)) /\ Body.x = Str(<<"7">>) /\ Body.pageNumber = Num(Fx(-1))
              /\ Len(TextCalls) = MaxPages

(* C8: in processPdf, a POST whose document payload is missing or invalid   *)
(* (no pdfBase64 and no pdfUrl given as a non-empty string, or a pdfBase64  *)
(* string that decodes to an empty buffer) or whose document has zero pages *)
(* is answered 400, never 500 or 200, and makes no render call.             *)
GivenString(v) == v.t = "string" /\ v.s # <<>>
NoPayload == ~GivenString(Body.pdfBase64) /\ ~GivenString(Body.pdfUrl)
EmptyDecode == GivenString(Body.pdfBase64) /\ \A i \in 1..Len(Body.pdfBase64.s) : Body.pdfBase64.s[i] \in {" ", DataPrefix}
ZeroPageDocument == \/ GivenString(Body.pdfBase64) /\ Body.pdfBase64 = PdfOf(0)
                    \/ ~GivenString(Body.pdfBase64) /\ GivenString(Body.pdfUrl) /\ req.net.ok /\ req.net.bytes = PdfBytes(0)
C8_BadPayloadIs400 == (InProcessPdf /\ Done /\ req.method = "POST" /\ (NoPayload \/ EmptyDecode \/ ZeroPageDocument))
                      => (status = 400 /\ calls = <<>>)

(* C9: in both handlers each of r, g, b of a supplied colour object is      *)
(* resolved on its own: a numeric component is clamped into [0,1], a        *)
(* missing or non-numeric one takes that component of the overlay kind's    *)
(* default colour (0 for text, 0.5 for watermark); a non-object colour      *)
(* yields the whole default colour.                                         *)
ChannelOf(c, ch, d) == IF c.t = "object" /\ IsFiniteNumber(Field(c, ch))
                       THEN (IF NumberOf(c[ch]) < 0 THEN 0 ELSE IF NumberOf(c[ch]) > Fx(1) THEN Fx(1) ELSE NumberOf(c[ch]))
                       ELSE d
ColorOf(c, d) == [r |-> ChannelOf(c, "r", d), g |-> ChannelOf(c, "g", d), b |-> ChannelOf(c, "b", d)]
CfgColorOf(call) == IF call.kind = "wm" THEN Body.watermark.color
                    ELSE IF Body.texts.t = "array" /\ call.item <= Len(Body.texts.a) THEN Body.texts.a[call.item].color
                    ELSE Body.color
DefaultChannel(call) == IF call.kind = "wm" THEN 50 ELSE 0
C9_ChannelsFallBackToDefault == \A i \in 1..Len(calls) : calls[i].color = ColorOf(CfgColorOf(calls[i]), DefaultChannel(calls[i]))
(* the same statement for processPdf alone *)
C9_InProcessPdf == InProcessPdf => C9_ChannelsFallBackToDefault

(* C10: in processPdf, a request that ends in 200 has made exactly these    *)
(* text-overlay render calls: for each texts element in array order,        *)
(* skipping those with empty or missing text, one call per target page (all *)
(* pages in document order for -1, else the single clamped page); no        *)
(* (element, page) pair is drawn twice or left out, and the pageCount of    *)
(* the response is the page count of the loaded document.                   *)
TargetPages(n, pn) == IF pn = Fx(-1) THEN AllPagesInOrder(n)
                      ELSE IF pn <= 0 THEN <<0>>
                      ELSE IF pn >= Fx(n - 1) THEN <<n - 1>>
                      ELSE <<CHOOSE k \in 0..(n - 1) : Fx(k) <= pn /\ pn < Fx(k + 1)>>
RECURSIVE ExpectedPairs(_, _, _)
ExpectedPairs(n, a, i) == IF i > Len(a) THEN <<>>
                          ELSE (IF Truthy(a[i].text)
                                THEN [k \in 1..Len(TargetPages(n, FiniteOr(a[i].pageNumber, 0))) |-> <<i, TargetPages(n, FiniteOr(a[i].pageNumber, 0))[k]>>]
                                ELSE <<>>) \o ExpectedPairs(n, a, i + 1)
PairsOf(cs) == [i \in 1..Len(cs) |-> <<cs[i].item, cs[i].page>>]
LoadedPageCount == LoadPageCount(IF GivenString(Body.pdfBase64) THEN BufferFromBase64(CleanBase64(Body.pdfBase64.s)) ELSE req.net.bytes)
C10_TextCallsInArrayOrder == (InProcessPdf /\ Done /\ status = 200 /\ Body.texts.t = "array")
                             => /\ PairsOf(TextCalls) = ExpectedPairs(pageCount, Body.texts.a, 1)
                                /\ \A i \in 1..Len(TextCalls) : TextCalls[i].str = Body.texts.a[TextCalls[i].item].text.s
                                /\ outPageCount = LoadedPageCount
C10_Witness == /\ InProcessPdf /\ Done /\ status = 200
               /\ Body.texts.t = "array" /\ Len(Body.texts.a) = 2
               /\ ~Truthy(Body.texts.a[1].text)
               /\ FiniteOr(Body.texts.a[2].pageNumber, 0) = Fx(-1)
               /\ pageCount = MaxPages
               /\ Len(TextCalls) = MaxPages

(* C11 as claimed: for every POST request that uses only the fields both   *)
(* endpoints accept (pdfBase64, text, x, y, pageNumber, fontSize, color,    *)
(* opacity, rotate, texts) and carries no watermark, addText and processPdf *)
(* answer with the same status and make the same render calls with the      *)
(* same arguments.                                                          *)
OtherEndpoint == [req EXCEPT !.endpoint = IF InProcessPdf THEN "addText" ELSE "processPdf"]
SameAsOtherEndpoint == Response(status, calls, outPageCount) = HandlerOf(OtherEndpoint)
SharedFieldsOnly == req.method = "POST" /\ Body.pdfUrl = Undef /\ Body.watermark = Undef
C11_EndpointsAgree == (Done /\ SharedFieldsOnly) => SameAsOtherEndpoint
(* C11 as amended: the same, for requests in which every x and y (of the    *)
(* legacy text and of each texts element) is a number or absent, texts is   *)
(* absent or a non-empty array, and the legacy text, when texts is absent,  *)
(* is absent, null, empty or a string that is non-blank after trimming.     *)
NumberOrAbsent(v) == v.t \in {"number", "undefined"}
PlainXY(o) == NumberOrAbsent(Field(o, "x")) /\ NumberOrAbsent(Field(o, "y"))
TextsAbsentOrNonEmpty == \/ Body.texts = Undef
                         \/ Body.texts.t = "array" /\ Body.texts.a # <<>> /\ \A i \in 1..Len(Body.texts.a) : PlainXY(Body.texts.a[i])
LegacyTextPlain == Body.texts = Undef => (PlainXY(Body) /\ (~Truthy(Body.text) \/ NonBlankString(Body.text)))
C11_EndpointsAgreeOnPlainRequests == (Done /\ SharedFieldsOnly /\ TextsAbsentOrNonEmpty /\ LegacyTextPlain) => SameAsOtherEndpoint
C11_Witness == /\ InAddText /\ Done /\ status = 200
               /\ SharedFieldsOnly /\ Body.texts = Undef
               /\ Body.text = Str(<<" ", "A">>) /\ Body.x = Num(Fx(100)) /\ Body.y = Undef
               /\ Body.fontSize = Str(<<"2", "4">>) /\ Body.pageNumber = Num(Fx(-1))
               /\ Len(TextCalls) = MaxPages

====
